---- MODULE Spec2Model ----
\* Verification model of llm-do: the sandboxed file access layer
\* (llm_do/sandbox/__init__.py) and the tool approval gate (llm_do/executor.py).
EXTENDS Integers, Sequences, FiniteSets, TLC

\* ------------------------------------------------------------------ bounds
\* Longest relative path (in components) handed to the path resolver.
MaxDepth == 2
\* Number of sandbox operations in one run of the manager.
MaxOps == 2
\* Number of tool calls the model requests in one run of execute_spec.
MaxCalls == 3
\* Number of times the approval prompt is shown for one tool call.
MaxAsk == 2

\* ------------------------------------------------------------ vocabulary
\* Path components. "" is the empty component a leading or doubled "/" leaves
\* when the string is split on "/"; ".." is the parent reference.
Names == {"a.txt", "B.MD", "sub"}
Segs == Names \cup {"", ".."}
\* Characters of a text: "x" (one byte), "CR" (carriage return), "LF" (line
\* feed) and "EACUTE" (a character of two bytes in UTF-8).

RECURSIVE SeqsUpTo(_, _)
SeqsUpTo(S, n) ==
    IF n = 0 THEN {<<>>}
    ELSE LET shorter == SeqsUpTo(S, n - 1)
         IN shorter \cup {Append(s, x) : s \in shorter, x \in S}

\* The relative path strings the path resolver is exercised on.
PathInputs == SeqsUpTo(Segs, MaxDepth)

\* The relative path strings handed to the manager's operations: plain, nested,
\* with a leading separator, with ".." that stays inside, that leaves, that
\* leaves and comes back, and through the name that may be a symbolic link.
ManagerPaths ==
    { <<>>, <<"a.txt">>, <<"B.MD">>, <<"sub">>, <<"", "a.txt">>,
      <<"sub", "a.txt">>, <<"sub", "..", "a.txt">>, <<"..", "a.txt">>,
      <<"..", "out", "a.txt">>, <<"sub", "..", "..", "a.txt">> }

\* The texts handed to write_text: empty, one byte, one two-byte character,
\* a carriage return, a CR LF pair, and one that exceeds two bytes.
ContentInputs ==
    { <<>>, <<"x">>, <<"EACUTE">>, <<"x", "CR">>, <<"CR", "LF">>,
      <<"x", "EACUTE">> }

\* Absolute, already resolved directories of the two configured sandboxes.
InputRoot == <<"ws", "input">>
OutRoot == <<"ws", "out">>

\* ------------------------------------------------------- pure path functions
\* Faulty variant of the strip: the path is taken as it was given.
LStrip_none(rel) == rel

\* str.lstrip("/"): every leading separator is dropped.
RECURSIVE LStrip(_)
LStrip(rel) ==
    IF rel # <<>> /\ Head(rel) = "" THEN LStrip(Tail(rel)) ELSE rel

\* pathlib drops the empty components of a relative string.
DropEmpty(rel) == SelectSeq(rel, LAMBDA c : c # "")

\* Path.__truediv__: an absolute right operand replaces the left one.
Join(root, rel) ==
    IF rel # <<>> /\ Head(rel) = "" THEN DropEmpty(rel) ELSE root \o DropEmpty(rel)

\* Path.resolve() (non strict): components left to right, ".." pops the
\* resolved prefix, a symbolic link is replaced by its (canonical) target.
RECURSIVE CanonFrom(_, _, _)
CanonFrom(cur, rest, lnk) ==
    IF rest = <<>> THEN cur
    ELSE LET c == Head(rest)
             nxt == Append(cur, c)
         IN IF c = ".."
            THEN CanonFrom(IF cur = <<>> THEN cur ELSE SubSeq(cur, 1, Len(cur) - 1),
                           Tail(rest), lnk)
            ELSE IF nxt \in DOMAIN lnk
                 THEN CanonFrom(lnk[nxt], Tail(rest), lnk)
                 ELSE CanonFrom(nxt, Tail(rest), lnk)

Canon(abs, lnk) == CanonFrom(<<>>, abs, lnk)

\* PurePath.relative_to succeeds: root is a component-wise prefix of p.
IsUnder(p, root) ==
    Len(p) >= Len(root) /\ SubSeq(p, 1, Len(root)) = root

\* The candidate of SandboxRoot.resolve before the containment test.
Candidate(root, rel, lnk) == Canon(Join(root, LStrip(rel)), lnk)

\* Faulty variants of resolve: one that returns the candidate without testing
\* it, one that tests the joined path before canonicalising it.
resolve_unchecked(root, rel, lnk) ==
    [ok |-> TRUE, path |-> Candidate(root, rel, lnk)]

resolve_check_before_canon(root, rel, lnk) ==
    IF IsUnder(Join(root, LStrip(rel)), root)
    THEN [ok |-> TRUE, path |-> Candidate(root, rel, lnk)]
    ELSE [ok |-> FALSE, path |-> <<>>]

\* SandboxRoot.resolve: the canonical path, or PermissionError.
resolve(root, rel, lnk) ==
    LET candidate == Candidate(root, rel, lnk)
    IN IF IsUnder(candidate, root)
       THEN [ok |-> TRUE, path |-> candidate]
       ELSE [ok |-> FALSE, path |-> <<>>]

\* ------------------------------------------------------------ text encoding
\* Bytes of one character in UTF-8.
Utf8Width(c) == IF c = "EACUTE" THEN 2 ELSE 1

\* len(content.encode("utf-8")).
RECURSIVE Utf8Len(_)
Utf8Len(text) ==
    IF text = <<>> THEN 0 ELSE Utf8Width(Head(text)) + Utf8Len(Tail(text))

\* Path.write_text opens the file in text mode with newline=None: every "\n"
\* is written as os.linesep, which is "\n" on the POSIX hosts modelled here.
RECURSIVE EncodeNewlines(_)
EncodeNewlines(text) ==
    IF text = <<>> THEN <<>>
    ELSE (IF Head(text) = "LF" THEN <<"LF">> ELSE <<Head(text)>>)
         \o EncodeNewlines(Tail(text))

\* Path.read_text opens the file in text mode with newline=None (universal
\* newlines): "\r\n" and a lone "\r" are both returned as "\n".
RECURSIVE DecodeNewlines(_)
DecodeNewlines(stored) ==
    IF stored = <<>> THEN <<>>
    ELSE IF Head(stored) = "CR"
         THEN IF Len(stored) >= 2 /\ stored[2] = "LF"
              THEN <<"LF">> \o DecodeNewlines(Tail(Tail(stored)))
              ELSE <<"LF">> \o DecodeNewlines(Tail(stored))
         ELSE <<Head(stored)>> \o DecodeNewlines(Tail(stored))

\* Path.suffix: the final component's last dot and what follows it.
Suffix(p) ==
    IF p = <<>> THEN ""
    ELSE LET name == p[Len(p)]
         IN CASE name = "a.txt" -> ".txt"
              [] name = "B.MD" -> ".MD"
              [] OTHER -> ""

\* str.lower() on a suffix.
Lower(suffix) == IF suffix = ".MD" THEN ".md" ELSE suffix

\* target.suffix.lower()
SuffixLower(p) == Lower(Suffix(p))

\* Python's order on the path strings str(rel): component by component, a
\* proper prefix first (no two names of the model share a first character,
\* and ".." comes before every letter).
NameRank(n) ==
    CASE n = ".." -> 0 [] n = "B.MD" -> 1 [] n = "a.txt" -> 2
      [] n = "input" -> 3 [] n = "out" -> 4 [] n = "sub" -> 5 [] OTHER -> 6

RECURSIVE StrLess(_, _)
StrLess(a, b) ==
    IF a = <<>> THEN b # <<>>
    ELSE IF b = <<>> THEN FALSE
    ELSE IF Head(a) = Head(b) THEN StrLess(Tail(a), Tail(b))
    ELSE NameRank(Head(a)) < NameRank(Head(b))

\* sorted(matches)
RECURSIVE sorted(_)
sorted(S) ==
    IF S = {} THEN <<>>
    ELSE LET least == CHOOSE m \in S : \A o \in S \ {m} : StrLess(m, o)
         IN <<least>> \o sorted(S \ {least})

\* ------------------------------------------------------------------- state
VARIABLES
    sandboxes,   \* SandboxManager.sandboxes: name -> SandboxRoot
    files,       \* the file system: regular files, absolute path -> stored text
    dirs,        \* the file system: directories (absolute paths)
    links,       \* the file system: symbolic links, absolute path -> target
    ops,         \* number of sandbox operations performed
    last,        \* the most recent operation: its inputs and what it did
    runner_auto, \* the sandbox tools' approval runner: auto-approved or prompting
    rcall,       \* SandboxRoot.resolve applied alone: the root and the relative path
    rres,        \* SandboxRoot.resolve applied alone: what it returned
    tools_approve, \* execute_spec's tools_approve argument
    approve_all,   \* ToolApprovalCallback.approve_all
    pc,            \* where the run of execute_spec is
    pending,       \* the tool call the approval prompt is about
    asked,         \* prompts shown so far for the pending tool call
    log,           \* the tool calls of the run and what became of each
    policy,        \* the AttachmentPolicy in force
    attachments,   \* validate_paths applied alone: the list it is given
    verdict,       \* validate_paths applied alone: what it did
    dstack,        \* delegation: the workers running, the outermost first
    dret,          \* delegation: what the worker on top is being handed
    dfault,        \* delegation: the depth a failure was raised at, 0 if none
    dlast,         \* delegation: the most recent call_worker request
    dlog,          \* delegation: what the outermost worker got from each call
    dcount,        \* delegation: call_worker requests made so far
    lstack,        \* event loop: the worker runs, the outermost first
    lowner,        \* event loop: the run that occupies the loop's thread, 0 if none
    lsync,         \* event loop: the blocking entry was re-entered from a run
    cargs,         \* cli.main: the parsed arguments and what run_worker will do
    cres,          \* cli.main: what main did
    pre,           \* execute_spec: the spec file, the model and the configuration
    raised,        \* execute_spec: what the pre-flight part raised, if anything
    tcall,         \* BaseToolbox: the tool called and the state of the world it meets
    tres           \* BaseToolbox: what the tool did

NoFiles == [p \in {} |-> <<>>]

\* The record kept of an operation. escapes: the canonical form of the path
\* asked for lies outside the sandbox root; touched: the files whose content
\* the operation read or wrote; max_chars: the limit a read was called with;
\* replaced: the file a write was aimed at held another text before it.
NoCall ==
    [op |-> "none", sb |-> "", dotdot |-> FALSE, escapes |-> FALSE,
     target |-> <<>>, content |-> <<>>, outcome |-> "none", text |-> <<>>,
     listing |-> <<>>, touched |-> {}, response |-> "none",
     max_chars |-> 0, replaced |-> FALSE]

\* SandboxManager.__init__: one SandboxRoot per configured sandbox, the root
\* resolved and created; mode "ro" becomes read_only.
SandboxRootOf(cfg) ==
    [path |-> cfg.path, read_only |-> (cfg.mode = "ro"),
     allowed_suffixes |-> cfg.allowed_suffixes,
     text_suffixes |-> cfg.text_suffixes, max_bytes |-> cfg.max_bytes]

\* One configuration of the two sandboxes: a read-only input and a writable
\* output whose suffix lists are given.
ConfigOf(allow, txt) ==
    [s \in {"input", "out"} |->
        IF s = "input"
        THEN [path |-> InputRoot, mode |-> "ro", allowed_suffixes |-> {".txt"},
              text_suffixes |-> {".txt"}, max_bytes |-> 2]
        ELSE [path |-> OutRoot, mode |-> "rw", allowed_suffixes |-> allow,
              text_suffixes |-> txt, max_bytes |-> 2]]

\* The configurations the manager is constructed from: no suffix lists, and
\* both a write and a text-read suffix list.
Configs == {ConfigOf({}, {}), ConfigOf({".txt", ".md"}, {".txt"})}

\* Names the operations are called with: the registered ones and a stranger.
SandboxNames == {"input", "out", "nope"}

\* Symbolic links the environment may have placed under the writable root.
LinkLayouts == {NoFiles, (Append(OutRoot, "sub") :> <<"ws">>)}

\* Files present before the manager runs: one outside every sandbox and one
\* in the read-only sandbox.
InitFiles ==
    (<<"ws", "a.txt">> :> <<"x">>) @@ (Append(InputRoot, "a.txt") :> <<"x", "CR">>)

fsvars == <<sandboxes, files, dirs, links, ops, last, runner_auto>>
resolvervars == <<rcall, rres>>
gatevars == <<tools_approve, approve_all, pc, pending, asked, log>>
attachvars == <<policy, attachments, verdict>>
delegvars == <<dstack, dret, dfault, dlast, dlog, dcount>>
loopvars == <<lstack, lowner, lsync>>
clivars == <<cargs, cres>>
prevars == <<pre, raised>>
boxvars == <<tcall, tres>>
restvars == <<loopvars, clivars, prevars, boxvars>>
vars == <<fsvars, resolvervars, gatevars, attachvars, delegvars, restvars>>

\* The resolver harness and the approval gate at rest.
ResolverIdle == rcall = [root |-> <<>>, path |-> <<>>] /\ rres = [done |-> FALSE]
GateIdle ==
    /\ tools_approve = FALSE
    /\ approve_all = FALSE
    /\ pc = "idle"
    /\ pending = "none"
    /\ asked = 0
    /\ log = <<>>

\* AttachmentPolicy(): the defaults of the class.
DefaultPolicy ==
    [max_attachments |-> 4, max_total_bytes |-> 10000000,
     allowed_suffixes |-> {}, denied_suffixes |-> {}]

NoVerdict == [done |-> FALSE]
NoRequest == [worker |-> "none", attachments |-> <<>>, outcome |-> "none",
              started |-> FALSE]
NoReply == [kind |-> "none", value |-> "none"]

\* The attachment harness and the delegation at rest.
AttachIdle ==
    /\ policy = DefaultPolicy
    /\ attachments = <<>>
    /\ verdict = NoVerdict

DelegIdle ==
    /\ dstack = <<>>
    /\ dret = NoReply
    /\ dfault = 0
    /\ dlast = NoRequest
    /\ dlog = <<>>
    /\ dcount = 0

NotDone == [done |-> FALSE]

\* The event loop, the command line, execute_spec's pre-flight part and the
\* toolbox at rest.
LoopIdle == lstack = <<>> /\ lowner = 0 /\ lsync = FALSE
CliIdle == cargs = [worker |-> "none"] /\ cres = NotDone
PreIdle == pre = [spec_exists |-> TRUE] /\ raised = "none"
BoxIdle == tcall = [tool |-> "none"] /\ tres = NotDone
RestIdle == LoopIdle /\ CliIdle /\ PreIdle /\ BoxIdle

\* The file system and the manager when no sandbox operation is modelled.
FsAtRest ==
    /\ runner_auto = FALSE
    /\ sandboxes = [s \in {"input", "out"} |-> SandboxRootOf(ConfigOf({}, {})[s])]
    /\ files = InitFiles
    /\ dirs = {<<>>, <<"ws">>, InputRoot, OutRoot}
    /\ links = NoFiles
    /\ ops = 0
    /\ last = NoCall

InitFs ==
    /\ runner_auto = FALSE
    /\ \E cfg \in Configs : sandboxes = [s \in DOMAIN cfg |-> SandboxRootOf(cfg[s])]
    /\ files = InitFiles
    /\ dirs = {<<>>, <<"ws">>, InputRoot, OutRoot}
    /\ links \in LinkLayouts
    /\ ops = 0
    /\ last = NoCall

\* ------------------------------------------------------- SandboxManager
\* Proper prefixes of p: the directories mkdir(parents=True) makes sure of.
ParentsOf(p) == {SubSeq(p, 1, n) : n \in 0..(Len(p) - 1)}

HasDotDot(path) == \E i \in 1..Len(path) : path[i] = ".."

\* The canonical form of root/path lies outside root (computed apart from
\* resolve, whose verdict the claims are about).
Escapes(root, path) == ~IsUnder(Canon(Join(root, LStrip(path)), links), root)

\* Faulty variant of the lookup: a name that is not registered falls back to
\* the writable sandbox.
sandbox_for_fallback(name) ==
    IF name \in DOMAIN sandboxes
    THEN [ok |-> TRUE, root |-> sandboxes[name]]
    ELSE [ok |-> TRUE, root |-> sandboxes["out"]]

\* SandboxManager._sandbox_for: the registered root, or KeyError (ok = FALSE).
sandbox_for(name) ==
    IF name \in DOMAIN sandboxes
    THEN [ok |-> TRUE, root |-> sandboxes[name]]
    ELSE [ok |-> FALSE, root |-> [path |-> <<>>]]

\* Faulty variant of read_text: the suffix is tested before the file is
\* looked for.
read_text_suffix_first(sb, path, max_chars) ==
    LET none == [outcome |-> "none", target |-> <<>>, text |-> <<>>, touched |-> {}]
    IN IF ~sandbox_for(sb).ok
       THEN [none EXCEPT !.outcome = "KeyError"]
       ELSE LET root == sandbox_for(sb).root
                target == resolve(root.path, path, links)
                at == [none EXCEPT !.target = target.path]
            IN IF ~target.ok
               THEN [none EXCEPT !.outcome = "PermissionError"]
               ELSE IF root.text_suffixes # {}
                       /\ SuffixLower(target.path) \notin root.text_suffixes
               THEN [at EXCEPT !.outcome = "PermissionError"]
               ELSE IF target.path \notin DOMAIN files
               THEN [at EXCEPT !.outcome = "FileNotFoundError"]
               ELSE LET text == DecodeNewlines(files[target.path])
                    IN IF Len(text) > max_chars
                       THEN [at EXCEPT !.outcome = "ValueError",
                                       !.touched = {target.path}]
                       ELSE [at EXCEPT !.outcome = "ok", !.text = text,
                                       !.touched = {target.path}]

\* SandboxManager.read_text, as a function of the state and its arguments.
read_text(sb, path, max_chars) ==
    LET none == [outcome |-> "none", target |-> <<>>, text |-> <<>>, touched |-> {}]
    IN IF ~sandbox_for(sb).ok
       THEN [none EXCEPT !.outcome = "KeyError"]
       ELSE LET root == sandbox_for(sb).root
                target == resolve(root.path, path, links)
                at == [none EXCEPT !.target = target.path]
            IN IF ~target.ok
               THEN [none EXCEPT !.outcome = "PermissionError"]
               ELSE IF target.path \notin DOMAIN files
               THEN [at EXCEPT !.outcome = "FileNotFoundError"]
               ELSE IF root.text_suffixes # {}
                       /\ SuffixLower(target.path) \notin root.text_suffixes
               THEN [at EXCEPT !.outcome = "PermissionError"]
               ELSE LET text == DecodeNewlines(files[target.path])
                    IN IF Len(text) > max_chars
                       THEN [at EXCEPT !.outcome = "ValueError",
                                       !.touched = {target.path}]
                       ELSE [at EXCEPT !.outcome = "ok", !.text = text,
                                       !.touched = {target.path}]

\* Faulty variant of the read-only test: it never refuses.
read_only_ignored(root) == FALSE

\* write_text's first test after the lookup: "if root.read_only".
read_only_refused(root) == root.read_only

\* Faulty variant of the size test: it counts characters, not bytes.
size_exceeded_chars(content, max_bytes) == Len(content) > max_bytes

\* write_text's size test: "len(content.encode('utf-8')) > root.max_bytes".
size_exceeded(content, max_bytes) == Utf8Len(content) > max_bytes

\* Faulty variant of the store: a file that is there already keeps its content.
store_if_absent(fs, target, content) ==
    fs @@ (target :> EncodeNewlines(content))

\* target.write_text(content, encoding="utf-8"): the file is created or
\* truncated and holds the content; no other file changes.
store(fs, target, content) ==
    (target :> EncodeNewlines(content)) @@ fs

\* Faulty variant of write_text: the parent directories are made before
\* the size test, so a refused write leaves them behind.
write_text_mkdir_first(sb, path, content) ==
    LET same == [outcome |-> "none", target |-> <<>>, files |-> files,
                 dirs |-> dirs, touched |-> {}]
    IN IF ~sandbox_for(sb).ok
       THEN [same EXCEPT !.outcome = "KeyError"]
       ELSE LET root == sandbox_for(sb).root
                target == resolve(root.path, path, links)
                at == [same EXCEPT !.target = target.path]
            IN IF read_only_refused(root)
               THEN [same EXCEPT !.outcome = "PermissionError"]
               ELSE IF ~target.ok
               THEN [same EXCEPT !.outcome = "PermissionError"]
               ELSE IF root.allowed_suffixes # {}
                       /\ SuffixLower(target.path) \notin root.allowed_suffixes
               THEN [at EXCEPT !.outcome = "PermissionError"]
               ELSE IF size_exceeded(content, root.max_bytes)
               THEN [at EXCEPT !.outcome = "ValueError",
                               !.dirs = dirs \cup ParentsOf(target.path)]
               ELSE IF \E d \in ParentsOf(target.path) : d \in DOMAIN files
               THEN [at EXCEPT !.outcome = "OSError"]
               ELSE IF target.path \in dirs
               THEN [at EXCEPT !.outcome = "OSError"]
               ELSE [at EXCEPT
                        !.outcome = "ok",
                        !.dirs = dirs \cup ParentsOf(target.path),
                        !.files = store(files, target.path, content),
                        !.touched = {target.path}]

\* SandboxManager.write_text, as a function of the state and its arguments:
\* the outcome and the file system it leaves.
write_text(sb, path, content) ==
    LET same == [outcome |-> "none", target |-> <<>>, files |-> files,
                 dirs |-> dirs, touched |-> {}]
    IN IF ~sandbox_for(sb).ok
       THEN [same EXCEPT !.outcome = "KeyError"]
       ELSE LET root == sandbox_for(sb).root
                target == resolve(root.path, path, links)
                at == [same EXCEPT !.target = target.path]
            IN IF read_only_refused(root)
               THEN [same EXCEPT !.outcome = "PermissionError"]
               ELSE IF ~target.ok
               THEN [same EXCEPT !.outcome = "PermissionError"]
               ELSE IF root.allowed_suffixes # {}
                       /\ SuffixLower(target.path) \notin root.allowed_suffixes
               THEN [at EXCEPT !.outcome = "PermissionError"]
               ELSE IF size_exceeded(content, root.max_bytes)
               THEN [at EXCEPT !.outcome = "ValueError"]
               ELSE IF \E d \in ParentsOf(target.path) : d \in DOMAIN files
               THEN [at EXCEPT !.outcome = "OSError"]
               ELSE IF target.path \in dirs
               THEN [at EXCEPT !.outcome = "OSError"]
               ELSE [at EXCEPT
                        !.outcome = "ok",
                        !.dirs = dirs \cup ParentsOf(target.path),
                        !.files = store(files, target.path, content),
                        !.touched = {target.path}]

\* Path.glob over the tree below root: "**" descends into directories only
\* (never through a symbolic link), "*" matches one component, a literal
\* suffix is matched with the case it has, and a ".." component of the
\* pattern is followed as it stands: "../*" yields root/../name for every
\* entry of the directory that holds the root.
GlobMatches(root, pattern) ==
    LET all == DOMAIN files \cup dirs \cup DOMAIN links
        entries == {e \in all : IsUnder(e, root) /\ e # root}
        holder == SubSeq(root, 1, Len(root) - 1)
    IN CASE pattern = "**/*" -> entries
         [] pattern = "../*" ->
                {root \o <<"..", e[Len(e)]>> :
                    e \in {x \in all : Len(x) = Len(root) /\ IsUnder(x, holder)}}
         [] pattern = "*.txt" ->
                {e \in entries : Len(e) = Len(root) + 1 /\ Suffix(e) = ".txt"}
         [] pattern = "**/*.txt" -> {e \in entries : Suffix(e) = ".txt"}

GlobInputs == {"**/*", "*.txt", "**/*.txt", "../*"}

\* SandboxManager.list_files
list_files(sb, pattern) ==
    IF ~sandbox_for(sb).ok
    THEN [outcome |-> "KeyError", listing |-> <<>>]
    ELSE LET root == sandbox_for(sb).root
             matches == {SubSeq(e, Len(root.path) + 1, Len(e)) :
                            e \in {m \in GlobMatches(root.path, pattern) :
                                      IsUnder(m, root.path)}}
         IN [outcome |-> "ok", listing |-> sorted(matches)]

\* The character limits read_text is called with (the default and a tight one).
MaxCharsInputs == {1, 200000}

\* What every operation records of its call.
CallOf(op, sb, path) ==
    [NoCall EXCEPT !.op = op, !.sb = sb, !.dotdot = HasDotDot(path),
                   !.escapes = (sb \in DOMAIN sandboxes
                                /\ Escapes(sandboxes[sb].path, path))]

ManagerListFiles ==
    /\ ops < MaxOps
    /\ \E sb \in SandboxNames, pattern \in GlobInputs :
          LET r == list_files(sb, pattern)
          IN last' = [NoCall EXCEPT !.op = "list", !.sb = sb,
                                    !.outcome = r.outcome, !.listing = r.listing]
    /\ ops' = ops + 1
    /\ UNCHANGED <<sandboxes, files, dirs, links, runner_auto>>
    /\ UNCHANGED <<resolvervars, gatevars, attachvars, delegvars, restvars>>

ManagerReadText ==
    /\ ops < MaxOps
    /\ \E sb \in SandboxNames, path \in ManagerPaths, max_chars \in MaxCharsInputs :
          LET r == read_text(sb, path, max_chars)
          IN last' = [CallOf("read", sb, path) EXCEPT
                         !.target = r.target, !.outcome = r.outcome,
                         !.text = r.text, !.touched = r.touched,
                         !.max_chars = max_chars]
    /\ ops' = ops + 1
    /\ UNCHANGED <<sandboxes, files, dirs, links, runner_auto>>
    /\ UNCHANGED <<resolvervars, gatevars, attachvars, delegvars, restvars>>

ManagerWriteText ==
    /\ ops < MaxOps
    /\ \E sb \in SandboxNames, path \in ManagerPaths, content \in ContentInputs :
          LET r == write_text(sb, path, content)
          IN /\ files' = r.files
             /\ dirs' = r.dirs
             /\ last' = [CallOf("write", sb, path) EXCEPT
                            !.target = r.target, !.content = content,
                            !.outcome = r.outcome, !.touched = r.touched,
                            !.replaced = ( /\ r.outcome = "ok"
                                           /\ r.target \in DOMAIN files
                                           /\ files[r.target] # r.files[r.target] )]
    /\ ops' = ops + 1
    /\ UNCHANGED <<sandboxes, links, runner_auto>>
    /\ UNCHANGED <<resolvervars, gatevars, attachvars, delegvars, restvars>>

\* The manager driven directly: any MaxOps operations, in any order.
Init == InitFs /\ ResolverIdle /\ GateIdle /\ AttachIdle /\ DelegIdle /\ RestIdle

Next == ManagerListFiles \/ ManagerReadText \/ ManagerWriteText

Spec == Init /\ [][Next]_vars

\* The sandbox root a recorded call named.
RootOf(call) == sandboxes[call.sb].path

\* C1: after any sequence of list, read_text and write_text calls, every file
\* whose content a call read or wrote lies strictly below the root of the
\* sandbox that call named, and the files outside the writable roots are the
\* ones that were there at the start, with the content they had.
C1_AccessStaysUnderRoot ==
    /\ \A p \in last.touched :
          /\ last.sb \in DOMAIN sandboxes
          /\ IsUnder(p, RootOf(last))
          /\ p # RootOf(last)
    /\ \A p \in DOMAIN InitFiles : p \in DOMAIN files /\ files[p] = InitFiles[p]
    /\ \A p \in DOMAIN files \ DOMAIN InitFiles :
          \E s \in DOMAIN sandboxes :
             ~sandboxes[s].read_only /\ IsUnder(p, sandboxes[s].path)

\* A write went through a path with ".." that stays inside the root, and a
\* read or write of an escaping path touched nothing.
C1_Witness ==
    /\ last.op = "write"
    /\ last.outcome = "ok"
    /\ last.dotdot
    /\ last.touched = {last.target}
    /\ IsUnder(last.target, OutRoot)

\* C3: write_text on a read-only sandbox fails with PermissionError whatever
\* the path and the content are (valid, escaping the root, or with a suffix
\* that is not allowed), before the path is resolved, and writes nothing.
C3_ReadOnlyWriteRefused ==
    (last.op = "write" /\ last.sb \in DOMAIN sandboxes /\ sandboxes[last.sb].read_only)
        => /\ last.outcome = "PermissionError"
           /\ last.touched = {}
           /\ last.target = <<>>

\* A write to the read-only sandbox with an escaping path was refused.
C3_Witness ==
    /\ last.op = "write"
    /\ last.sb = "input"
    /\ last.escapes
    /\ last.outcome = "PermissionError"

\* C4: a successful write_text followed at once by a successful read_text of
\* the same file in the same sandbox returns exactly the text written.
C4_RoundTrip ==
    [][ ( /\ last.op = "write" /\ last.outcome = "ok"
          /\ last'.op = "read" /\ last'.outcome = "ok"
          /\ ops' = ops + 1
          /\ last'.sb = last.sb
          /\ last'.target = last.target )
        => last'.text = last.content ]_vars

\* The recorded call is a write_text to a read-write sandbox whose path
\* resolves inside the root and whose suffix the sandbox allows.
WriteToAllowedPath ==
    /\ last.op = "write"
    /\ last.sb \in DOMAIN sandboxes
    /\ ~sandboxes[last.sb].read_only
    /\ ~last.escapes
    /\ \/ sandboxes[last.sb].allowed_suffixes = {}
       \/ SuffixLower(last.target) \in sandboxes[last.sb].allowed_suffixes

\* The place a write is aimed at can hold a file: it is no directory and no
\* directory above it is a file.
CanHoldFile(target) ==
    /\ target \notin dirs
    /\ \A d \in ParentsOf(target) : d \notin DOMAIN files

\* C11: a write_text to a read-write sandbox with an allowed path fails with
\* ValueError (size exceeded) exactly when the UTF-8 encoding of the content
\* is longer than max_bytes, and content of exactly max_bytes bytes is
\* written.
C11_SizeLimitInBytes ==
    WriteToAllowedPath =>
        /\ (last.outcome = "ValueError")
              <=> (Utf8Len(last.content) > sandboxes[last.sb].max_bytes)
        /\ ( /\ Utf8Len(last.content) = sandboxes[last.sb].max_bytes
             /\ CanHoldFile(last.target) )
           => ( /\ last.outcome = "ok"
                /\ last.target \in DOMAIN files
                /\ files[last.target] = last.content )

\* A text of max_bytes characters whose encoding is one byte longer was
\* refused by a write to an allowed path.
C11_Witness ==
    /\ WriteToAllowedPath
    /\ Len(last.content) = sandboxes[last.sb].max_bytes
    /\ Utf8Len(last.content) = sandboxes[last.sb].max_bytes + 1
    /\ CanHoldFile(last.target)
    /\ last.outcome = "ValueError"

\* C12: read_text makes its tests in a fixed order and the first one that
\* fails decides the error: PermissionError when the path escapes the root,
\* then FileNotFoundError when the target is missing or is no regular file,
\* then PermissionError when the text suffix list is not empty and does not
\* hold the suffix, then ValueError when the text is longer than max_chars.
C12_ReadChecksInOrder ==
    (last.op = "read" /\ last.sb \in DOMAIN sandboxes) =>
        LET root == sandboxes[last.sb]
        IN last.outcome =
              IF last.escapes THEN "PermissionError"
              ELSE IF last.target \notin DOMAIN files THEN "FileNotFoundError"
              ELSE IF /\ root.text_suffixes # {}
                      /\ SuffixLower(last.target) \notin root.text_suffixes
                   THEN "PermissionError"
              ELSE IF Len(DecodeNewlines(files[last.target])) > last.max_chars
                   THEN "ValueError"
              ELSE "ok"

\* A read of a missing file whose suffix is not in the text suffix list
\* failed with FileNotFoundError: the earlier test decided.
C12_Witness ==
    /\ last.op = "read"
    /\ last.sb \in DOMAIN sandboxes
    /\ ~last.escapes
    /\ last.target \notin DOMAIN files
    /\ last.target \notin dirs
    /\ sandboxes[last.sb].text_suffixes # {}
    /\ SuffixLower(last.target) \notin sandboxes[last.sb].text_suffixes
    /\ last.outcome = "FileNotFoundError"

\* C13: a successful write_text makes sure of every directory above the
\* target and leaves the target holding the content of this write, whatever
\* it held before; every other file keeps its content and no file or
\* directory disappears.
C13_LastWriteWins ==
    [][ (ops' = ops + 1 /\ last'.op = "write" /\ last'.outcome = "ok")
        => ( /\ DOMAIN files' = DOMAIN files \cup {last'.target}
             /\ files'[last'.target] = last'.content
             /\ \A p \in DOMAIN files \ {last'.target} : files'[p] = files[p]
             /\ ParentsOf(last'.target) \subseteq dirs'
             /\ dirs \subseteq dirs'
             /\ dirs' \subseteq dirs \cup ParentsOf(last'.target) ) ]_vars

\* A file below a directory that an earlier write created was written again
\* and holds the content of the later write.
C13_Witness ==
    /\ last.op = "write"
    /\ last.outcome = "ok"
    /\ last.replaced
    /\ Len(last.target) > Len(RootOf(last)) + 1
    /\ files[last.target] = last.content

\* C15: list_files returns the entries below the sandbox root that match the
\* pattern, as paths relative to the root in ascending order: every path
\* listed names a file, directory or link that lies below the root.
C15_ListingStaysUnderRoot ==
    (last.op = "list" /\ last.outcome = "ok") =>
        /\ \A i \in 1..Len(last.listing) :
              /\ ~HasDotDot(last.listing[i])
              /\ (RootOf(last) \o last.listing[i])
                    \in (DOMAIN files \cup dirs \cup DOMAIN links)
        /\ \A i \in 1..(Len(last.listing) - 1) :
              StrLess(last.listing[i], last.listing[i + 1])

\* C16: list_files, read_text and write_text called with a sandbox name that
\* is not registered fail with KeyError before any path is resolved or any
\* file is read or written, and no operation changes the set of sandboxes.
C16_UnknownSandboxNotFound ==
    [][ /\ sandboxes' = sandboxes
        /\ ( /\ ops' = ops + 1
             /\ last'.op \in {"list", "read", "write"}
             /\ last'.sb \notin DOMAIN sandboxes )
           => ( /\ last'.outcome = "KeyError"
                /\ last'.target = <<>>
                /\ last'.touched = {}
                /\ files' = files
                /\ dirs' = dirs ) ]_vars

\* A write named a sandbox that is not registered and failed with KeyError.
C16_Witness ==
    /\ last.op = "write"
    /\ last.sb \notin DOMAIN sandboxes
    /\ last.outcome = "KeyError"
    /\ last.touched = {}

\* ------------------------------------------------------------ SandboxToolset
\* The answers the approval runner may be given for one call.
RunnerAnswers == {"accept", "accept_all", "decline", "quit"}

\* ApprovalRunner.maybe_run, the decision it takes: run the function or
\* report a cancellation, and the runner's flag afterwards. An auto-approved
\* runner asks nothing.
maybe_run(auto, answer) ==
    IF auto THEN [run |-> TRUE, auto |-> TRUE]
    ELSE CASE answer = "accept" -> [run |-> TRUE, auto |-> FALSE]
           [] answer = "accept_all" -> [run |-> TRUE, auto |-> TRUE]
           [] OTHER -> [run |-> FALSE, auto |-> FALSE]

\* Faulty variant of the tool: the write is made before the runner is asked.
toolset_write_text_unguarded(sb, path, content, answer) ==
    LET gate == maybe_run(runner_auto, answer)
        done == write_text(sb, path, content)
    IN IF gate.run
       THEN done @@ [auto |-> gate.auto]
       ELSE [done EXCEPT !.outcome = "Cancelled"] @@ [auto |-> gate.auto]

\* SandboxToolset.write_text: manager.write_text is handed to
\* approvals.maybe_run as a function and runs only if the runner calls it.
toolset_write_text(sb, path, content, answer) ==
    LET gate == maybe_run(runner_auto, answer)
    IN IF gate.run
       THEN write_text(sb, path, content) @@ [auto |-> gate.auto]
       ELSE [outcome |-> "Cancelled", target |-> <<>>, files |-> files,
             dirs |-> dirs, touched |-> {}, auto |-> gate.auto]

\* The arguments the tools are called with.
ToolsetPaths == {<<"a.txt">>, <<"sub", "a.txt">>, <<"..", "a.txt">>}
ToolsetContents == {<<"x">>, <<"x", "CR">>, <<"x", "EACUTE">>}

\* SandboxToolset.list
ToolsetList ==
    /\ ops < MaxOps
    /\ \E sb \in SandboxNames, pattern \in GlobInputs :
          LET r == list_files(sb, pattern)
          IN last' = [NoCall EXCEPT !.op = "tool_list", !.sb = sb,
                                    !.outcome = r.outcome, !.listing = r.listing]
    /\ ops' = ops + 1
    /\ UNCHANGED <<sandboxes, files, dirs, links, runner_auto>>
    /\ UNCHANGED <<resolvervars, gatevars, attachvars, delegvars, restvars>>

\* SandboxToolset.read_text
ToolsetReadText ==
    /\ ops < MaxOps
    /\ \E sb \in SandboxNames, path \in ToolsetPaths, max_chars \in MaxCharsInputs :
          LET r == read_text(sb, path, max_chars)
          IN last' = [CallOf("tool_read", sb, path) EXCEPT
                         !.target = r.target, !.outcome = r.outcome,
                         !.text = r.text, !.touched = r.touched]
    /\ ops' = ops + 1
    /\ UNCHANGED <<sandboxes, files, dirs, links, runner_auto>>
    /\ UNCHANGED <<resolvervars, gatevars, attachvars, delegvars, restvars>>

\* SandboxToolset.write_text
ToolsetWriteText ==
    /\ ops < MaxOps
    /\ \E sb \in SandboxNames, path \in ToolsetPaths, content \in ToolsetContents,
          answer \in (IF runner_auto THEN {"none"} ELSE RunnerAnswers) :
          LET r == toolset_write_text(sb, path, content, answer)
          IN /\ files' = r.files
             /\ dirs' = r.dirs
             /\ runner_auto' = r.auto
             /\ last' = [CallOf("tool_write", sb, path) EXCEPT
                            !.target = r.target, !.content = content,
                            !.outcome = r.outcome, !.touched = r.touched,
                            !.response = answer]
    /\ ops' = ops + 1
    /\ UNCHANGED <<sandboxes, links>>
    /\ UNCHANGED <<resolvervars, gatevars, attachvars, delegvars, restvars>>

NextToolset == ToolsetList \/ ToolsetReadText \/ ToolsetWriteText

SpecToolset == Init /\ [][NextToolset]_vars

\* C9: a write asked for through the sandbox toolset happens only when the
\* approval runner runs it: a call whose answer is decline leaves every file
\* and directory as it was and reports a cancellation, and every step that
\* changes the file system is a write call the runner approved.
C9_DeclinedWriteWritesNothing ==
    [][ /\ ( /\ ops' = ops + 1
             /\ last'.op = "tool_write"
             /\ last'.response = "decline" )
           => ( /\ files' = files
                /\ dirs' = dirs
                /\ last'.touched = {}
                /\ last'.outcome = "Cancelled" )
        /\ (files' # files \/ dirs' # dirs)
           => ( /\ last'.op = "tool_write"
                /\ last'.response \in {"accept", "accept_all", "none"} )
      ]_vars

\* A write to the writable sandbox at a path inside its root was declined
\* and reported as cancelled.
C9_Witness ==
    /\ last.op = "tool_write"
    /\ last.sb = "out"
    /\ ~last.escapes
    /\ last.response = "decline"
    /\ last.outcome = "Cancelled"
    /\ last.touched = {}

\* ------------------------------------------------- SandboxRoot.resolve alone
\* The resolver applied to one root and one relative path drawn from
\* PathInputs, over each layout of symbolic links.
InitResolve ==
    /\ InitFs
    /\ GateIdle
    /\ AttachIdle
    /\ DelegIdle
    /\ RestIdle
    /\ rcall \in [root : {InputRoot, OutRoot}, path : PathInputs]
    /\ rres = [done |-> FALSE]

\* "/" + relative: the same path with a separator put in front.
Slashed(rel) == <<"">> \o rel

\* The harness: resolve(relative), and resolve("/" + relative) beside it.
ResolvePath ==
    /\ ~rres.done
    /\ LET r == resolve(rcall.root, rcall.path, links)
           s == resolve(rcall.root, Slashed(rcall.path), links)
       IN rres' = [done |-> TRUE, ok |-> r.ok, path |-> r.path, slashed |-> s]
    /\ UNCHANGED <<rcall, fsvars, gatevars, attachvars, delegvars, restvars>>

NextResolve == ResolvePath

SpecResolve == InitResolve /\ [][NextResolve]_vars

\* ------------------------------------------- execute_spec and its approval gate
\* The tools of BaseToolbox the model may call, and the side-effecting ones.
ToolNames == {"run_bash", "read_file", "write_file"}
SideEffecting == {"run_bash", "write_file"}

\* What the user may type at the prompt.
ResponseInputs == {"y", "", " No ", "a", "Always", "QUIT", "maybe"}

\* click.prompt(..., default="y"): an empty line is the default; then
\* .lower().strip().
Normalize(raw) ==
    CASE raw = "" -> "y"
      [] raw = " No " -> "no"
      [] raw = "Always" -> "always"
      [] raw = "QUIT" -> "quit"
      [] OTHER -> raw

\* Faulty variants of the callback's decision: a decline that lets the call
\* run, an "always" that approves the one call only, an accept that is
\* remembered.
Decision_decline_runs(response) ==
    CASE response \in {"y", "yes", "", "n", "no"} -> "return"
      [] response \in {"a", "always"} -> "approve_all"
      [] response \in {"q", "quit"} -> "cancel_quit"
      [] OTHER -> "again"

Decision_always_once(response) ==
    CASE response \in {"y", "yes", "", "a", "always"} -> "return"
      [] response \in {"n", "no"} -> "cancel_declined"
      [] response \in {"q", "quit"} -> "cancel_quit"
      [] OTHER -> "again"

Decision_accept_remembered(response) ==
    CASE response \in {"y", "yes", "", "a", "always"} -> "approve_all"
      [] response \in {"n", "no"} -> "cancel_declined"
      [] response \in {"q", "quit"} -> "cancel_quit"
      [] OTHER -> "again"

\* Faulty variant: an answer that is not recognised counts as an accept.
Decision_unrecognised_accepts(response) ==
    CASE response \in {"n", "no"} -> "cancel_declined"
      [] response \in {"a", "always"} -> "approve_all"
      [] response \in {"q", "quit"} -> "cancel_quit"
      [] OTHER -> "return"

\* ToolApprovalCallback.__call__, the branch taken on a response: return,
\* raise CancelToolCall("User declined tool call"), set approve_all and
\* return, raise CancelToolCall("User quit"), or prompt again.
Decision(response) ==
    CASE response \in {"y", "yes", ""} -> "return"
      [] response \in {"n", "no"} -> "cancel_declined"
      [] response \in {"a", "always"} -> "approve_all"
      [] response \in {"q", "quit"} -> "cancel_quit"
      [] OTHER -> "again"

\* Faulty variant of the chain's handling: a cancellation ends the run.
OnCancelToolCall_aborts(message) == "raised"

\* model.chain(before_call=...): a CancelToolCall raised by before_call is
\* caught per tool call, whatever its message; the call is not executed, its
\* result is the cancellation, and the chain goes on.
OnCancelToolCall(message) == "chain"

\* execute_spec: before_call is a ToolApprovalCallback only if tools_approve.
before_call(flag) == IF flag THEN "callback" ELSE "none"

\* One entry of the run's log: the tool, the (normalised) answer that settled
\* its prompt or "none", whether the tool was executed, and whether a prompt
\* was shown for it.
Entry(tool, answer, executed, prompted) ==
    [tool |-> tool, answer |-> answer, executed |-> executed, prompted |-> prompted]

InitGate ==
    /\ AttachIdle
    /\ DelegIdle
    /\ RestIdle
    /\ FsAtRest
    /\ ResolverIdle
    /\ tools_approve \in BOOLEAN
    /\ approve_all = FALSE
    /\ pc = "chain"
    /\ pending = "none"
    /\ asked = 0
    /\ log = <<>>

\* The model requests a tool call. Without a callback the tool runs; with
\* approve_all set the callback returns at once and the tool runs; otherwise
\* the callback shows the call and prompts.
ChainToolCall ==
    /\ pc = "chain"
    /\ Len(log) < MaxCalls
    /\ \E tool \in ToolNames :
          IF before_call(tools_approve) = "none"
          THEN /\ log' = Append(log, Entry(tool, "none", TRUE, FALSE))
               /\ UNCHANGED <<pc, pending, asked>>
          ELSE IF approve_all
          THEN /\ log' = Append(log, Entry(tool, "none", TRUE, FALSE))
               /\ UNCHANGED <<pc, pending, asked>>
          ELSE /\ pc' = "prompt"
               /\ pending' = tool
               /\ asked' = 1
               /\ UNCHANGED log
    /\ UNCHANGED <<tools_approve, approve_all, fsvars, resolvervars>>
    /\ UNCHANGED <<attachvars, delegvars, restvars>>

\* The user answers the prompt.
Respond ==
    /\ pc = "prompt"
    /\ \E raw \in ResponseInputs :
          LET d == Decision(Normalize(raw))
          IN CASE d = "return" ->
                    /\ log' = Append(log, Entry(pending, Normalize(raw), TRUE, asked > 0))
                    /\ pc' = "chain" /\ pending' = "none" /\ asked' = 0
                    /\ UNCHANGED approve_all
               [] d = "approve_all" ->
                    /\ approve_all' = TRUE
                    /\ log' = Append(log, Entry(pending, Normalize(raw), TRUE, asked > 0))
                    /\ pc' = "chain" /\ pending' = "none" /\ asked' = 0
               [] d = "cancel_declined" ->
                    /\ log' = Append(log, Entry(pending, Normalize(raw), FALSE, asked > 0))
                    /\ pc' = OnCancelToolCall("User declined tool call")
                    /\ pending' = "none" /\ asked' = 0
                    /\ UNCHANGED approve_all
               [] d = "cancel_quit" ->
                    /\ log' = Append(log, Entry(pending, Normalize(raw), FALSE, asked > 0))
                    /\ pc' = OnCancelToolCall("User quit")
                    /\ pending' = "none" /\ asked' = 0
                    /\ UNCHANGED approve_all
               [] OTHER ->
                    /\ asked < MaxAsk
                    /\ asked' = asked + 1
                    /\ UNCHANGED <<log, pc, pending, approve_all>>
    /\ UNCHANGED <<tools_approve, fsvars, resolvervars, attachvars, delegvars, restvars>>

\* The model answers without a further tool call: execute_spec returns.
ChainFinish ==
    /\ pc = "chain"
    /\ pc' = "done"
    /\ UNCHANGED <<tools_approve, approve_all, pending, asked, log, fsvars, resolvervars>>
    /\ UNCHANGED <<attachvars, delegvars, restvars>>

NextGate == ChainToolCall \/ Respond \/ ChainFinish

SpecGate == InitGate /\ [][NextGate]_vars

\* The answers, as the prompt "[y]es, [n]o, [a]lways, [q]uit" names them.
Accept == {"y", "yes", ""}
Decline == {"n", "no"}
AcceptAll == {"a", "always"}
Quit == {"q", "quit"}

\* C5: once a prompt is answered "always", that call is executed, approve_all
\* is set and stays set, no prompt is shown again, and every later tool call
\* of the run is executed without a prompt.
C5_AlwaysIsPermanent ==
    \A i \in 1..Len(log) :
       log[i].answer \in AcceptAll
          => /\ log[i].executed
             /\ approve_all
             /\ pc # "prompt"
             /\ \A j \in (i + 1)..Len(log) : log[j].executed /\ ~log[j].prompted

\* A side-effecting call ran unprompted after an earlier "always".
C5_Witness ==
    \E i, j \in 1..Len(log) :
       /\ i < j
       /\ log[i].answer \in AcceptAll
       /\ log[j].tool \in SideEffecting
       /\ log[j].executed
       /\ ~log[j].prompted

\* C6: a decline keeps the declined call from executing and nothing else:
\* approve_all stays unset, the run goes on, and the next tool call prompts
\* again.
C6_DeclineCancelsOneCall ==
    \A i \in 1..Len(log) :
       log[i].answer \in Decline
          => /\ ~log[i].executed
             /\ i < Len(log) => log[i + 1].prompted
             /\ i = Len(log) => (~approve_all /\ pc # "raised")

\* A call was declined and the next call of the run was prompted and ran.
C6_Witness ==
    \E i \in 1..Len(log) :
       /\ log[i].answer \in Decline
       /\ i < Len(log)
       /\ log[i + 1].prompted
       /\ log[i + 1].executed

\* C7: after a quit answer no further tool call of the run is executed.
C7_QuitAbortsRun ==
    \A i, j \in 1..Len(log) :
       (i < j /\ log[i].answer \in Quit) => ~log[j].executed

\* C8 as stated: every side-effecting tool call that executed was confirmed,
\* by an accept or accept-all answer to its own prompt or by an earlier
\* accept-all.
C8_EverySideEffectConfirmed ==
    \A i \in 1..Len(log) :
       (log[i].executed /\ log[i].tool \in SideEffecting)
          => \/ log[i].answer \in Accept \cup AcceptAll
             \/ \E k \in 1..(i - 1) : log[k].answer \in AcceptAll

\* C8 as amended: when execute_spec is called with tools_approve set, every
\* tool call that executed was confirmed, by an accept or accept-all answer to
\* its own prompt or by an earlier accept-all.
C8_ConfirmedWhenToolsApprove ==
    tools_approve
       => \A i \in 1..Len(log) :
             log[i].executed
                => \/ log[i].answer \in Accept \cup AcceptAll
                   \/ \E k \in 1..(i - 1) : log[k].answer \in AcceptAll

\* With tools_approve set, one side-effecting call was declined and did not
\* run and another was accepted and ran.
C8_Witness ==
    /\ tools_approve
    /\ \E i, j \in 1..Len(log) :
          /\ log[i].tool \in SideEffecting /\ log[i].answer \in Decline
          /\ ~log[i].executed
          /\ log[j].tool \in SideEffecting /\ log[j].answer \in Accept
          /\ log[j].executed

\* C10: an accept answer lets the prompted call execute and is not
\* remembered: approve_all stays unset and the next tool call prompts again.
C10_AcceptIsNotRemembered ==
    \A i \in 1..Len(log) :
       log[i].answer \in Accept
          => /\ log[i].executed
             /\ log[i].prompted
             /\ i < Len(log) => log[i + 1].prompted
             /\ i = Len(log) => ~approve_all

\* Two calls in a row were each prompted, accepted and executed.
C10_Witness ==
    \E i \in 1..Len(log) :
       /\ i < Len(log)
       /\ log[i].answer \in Accept /\ log[i].executed
       /\ log[i + 1].answer \in Accept /\ log[i + 1].prompted /\ log[i + 1].executed

\* C28: an answer that is none of the recognised ones settles nothing: no
\* tool call is ever run or cancelled on such an answer, and after it the
\* same call is still pending at a new prompt with approve_all unset.
C28_UnrecognisedAnswerAsksAgain ==
    /\ \A i \in 1..Len(log) :
          log[i].answer \in Accept \cup Decline \cup AcceptAll \cup Quit \cup {"none"}
    /\ asked > 1 => (pc = "prompt" /\ pending \in ToolNames /\ ~approve_all)
    /\ \A i \in 1..Len(log) :
          (log[i].prompted /\ log[i].executed)
             => log[i].answer \in Accept \cup AcceptAll

\* A side-effecting call is at its second prompt after an answer that was
\* not recognised, with an earlier call of the run already settled.
C28_Witness ==
    /\ pc = "prompt"
    /\ asked = 2
    /\ pending \in SideEffecting
    /\ Len(log) > 0
    /\ ~approve_all

\* ------------------------------------------- AttachmentPolicy.validate_paths
\* The longest attachment list the policy is handed.
MaxAttach == 3

\* The files an attachment path may name: its name, the size stat() reports
\* and whether it is there at all (stat() raises FileNotFoundError if not).
AttachFiles ==
    { [name |-> "a.txt", size |-> 1, there |-> TRUE],
      [name |-> "a.txt", size |-> 2, there |-> TRUE],
      [name |-> "B.MD", size |-> 1, there |-> TRUE],
      [name |-> "sub", size |-> 1, there |-> TRUE],
      [name |-> "a.txt", size |-> 0, there |-> FALSE],
      [name |-> "B.MD", size |-> 0, there |-> FALSE] }

\* The policies: the suffix lists as the validator leaves them (lower case),
\* max_attachments non-negative and max_total_bytes positive.
PolicyInputs ==
    [max_attachments : {0, 2}, max_total_bytes : {2, 3},
     allowed_suffixes : {{}, {".txt", ".md"}}, denied_suffixes : {{}, {".md"}}]

\* Faulty variant of the count test: one attachment too many is let through.
too_many_lenient(n, max_attachments) == n > max_attachments + 1

\* "if len(attachments) > self.max_attachments"
too_many(n, max_attachments) == n > max_attachments

\* Faulty variant of the size test: a total that meets the limit is refused.
total_exceeded_at_limit(total, max_total_bytes) == total >= max_total_bytes

\* "if total > self.max_total_bytes"
total_exceeded(total, max_total_bytes) == total > max_total_bytes

\* The loop of validate_paths from the i-th attachment on, total being the
\* sum of the sizes before it. at: the attachment the loop stopped at.
RECURSIVE scan(_, _, _, _)
scan(pol, atts, i, total) ==
    IF i > Len(atts)
    THEN [outcome |-> "ok", reason |-> "none", at |-> 0]
    ELSE LET suffix == SuffixLower(<<atts[i].name>>)
         IN IF pol.allowed_suffixes # {} /\ suffix \notin pol.allowed_suffixes
            THEN [outcome |-> "ValueError", reason |-> "not allowed", at |-> i]
            ELSE IF pol.denied_suffixes # {} /\ suffix \in pol.denied_suffixes
            THEN [outcome |-> "ValueError", reason |-> "denied", at |-> i]
            ELSE IF ~atts[i].there
            THEN [outcome |-> "FileNotFoundError", reason |-> "stat", at |-> i]
            ELSE IF total_exceeded(total + atts[i].size, pol.max_total_bytes)
            THEN [outcome |-> "ValueError", reason |-> "total", at |-> i]
            ELSE scan(pol, atts, i + 1, total + atts[i].size)

\* Faulty variant of the validation: every list is let through.
validate_paths_unchecked(pol, atts) ==
    [outcome |-> "ok", reason |-> "none", at |-> 0]

\* AttachmentPolicy.validate_paths
validate_paths(pol, atts) ==
    IF too_many(Len(atts), pol.max_attachments)
    THEN [outcome |-> "ValueError", reason |-> "too many", at |-> 0]
    ELSE scan(pol, atts, 1, 0)

\* validate_paths applied to one list under one policy.
InitAttach ==
    /\ FsAtRest
    /\ ResolverIdle
    /\ GateIdle
    /\ DelegIdle
    /\ RestIdle
    /\ policy \in PolicyInputs
    /\ attachments \in SeqsUpTo(AttachFiles, MaxAttach)
    /\ verdict = NoVerdict

ValidatePaths ==
    /\ ~verdict.done
    /\ LET r == validate_paths(policy, attachments)
       IN verdict' = [done |-> TRUE, outcome |-> r.outcome,
                      reason |-> r.reason, at |-> r.at]
    /\ UNCHANGED <<policy, attachments, fsvars, resolvervars, gatevars, delegvars, restvars>>

NextAttach == ValidatePaths

SpecAttach == InitAttach /\ [][NextAttach]_vars

\* What the claims say of one attachment, apart from the loop above.
SuffixShutOut(pol, f) ==
    \/ pol.allowed_suffixes # {} /\ SuffixLower(<<f.name>>) \notin pol.allowed_suffixes
    \/ pol.denied_suffixes # {} /\ SuffixLower(<<f.name>>) \in pol.denied_suffixes

RECURSIVE SizeSum(_, _)
SizeSum(atts, i) == IF i = 0 THEN 0 ELSE SizeSum(atts, i - 1) + atts[i].size

\* The i-th attachment trips one of the tests the policy makes on a file.
Trips(pol, atts, i) ==
    \/ SuffixShutOut(pol, atts[i])
    \/ SizeSum(atts, i) > pol.max_total_bytes

\* The first position of atts that satisfies Bad, 0 if none does.
FirstWhere(atts, Bad(_)) ==
    IF \E i \in 1..Len(atts) : Bad(i)
    THEN CHOOSE i \in 1..Len(atts) : Bad(i) /\ \A j \in 1..(i - 1) : ~Bad(j)
    ELSE 0

\* C17: validate_paths rejects every list longer than max_attachments, even
\* one whose files would each pass, and does so before it looks at any file.
C17_CountCheckedFirst ==
    (verdict.done /\ Len(attachments) > policy.max_attachments)
        => /\ verdict.outcome = "ValueError"
           /\ verdict.reason = "too many"
           /\ verdict.at = 0

\* A list one longer than a positive max_attachments, of files that are
\* there, pass the suffix lists and fit the byte limit together, was
\* rejected.
C17_Witness ==
    /\ verdict.done
    /\ policy.max_attachments > 0
    /\ Len(attachments) = policy.max_attachments + 1
    /\ \A i \in 1..Len(attachments) :
          attachments[i].there /\ ~Trips(policy, attachments, i)
    /\ verdict.outcome = "ValueError"

\* C18 as stated: for a list within the count limit, validate_paths fails at
\* the first file whose suffix is shut out by the allow-list or the deny-list
\* or at which the running sum of sizes exceeds max_total_bytes, and accepts
\* exactly when no file trips one of these tests.
C18_FirstFailingCheckDecides ==
    (verdict.done /\ Len(attachments) <= policy.max_attachments)
        => LET k == FirstWhere(attachments, LAMBDA i : Trips(policy, attachments, i))
           IN /\ (verdict.outcome = "ok") <=> (k = 0)
              /\ k # 0 => (verdict.outcome = "ValueError" /\ verdict.at = k)

\* C18: for a list within the count limit, validate_paths goes through the
\* files in order and stops at the first one whose suffix is shut out, which
\* is missing (FileNotFoundError from stat), or at which the running sum of
\* sizes exceeds max_total_bytes; it accepts exactly when every file is there
\* and none trips a test, a total equal to max_total_bytes included.
C18_FirstFailingCheckOrMissingFile ==
    (verdict.done /\ Len(attachments) <= policy.max_attachments)
        => LET Stops(i) == \/ Trips(policy, attachments, i)
                           \/ ~attachments[i].there
               k == FirstWhere(attachments, Stops)
           IN /\ (verdict.outcome = "ok") <=> (k = 0)
              /\ k # 0 =>
                   /\ verdict.at = k
                   /\ verdict.outcome =
                         IF SuffixShutOut(policy, attachments[k]) THEN "ValueError"
                         ELSE IF ~attachments[k].there THEN "FileNotFoundError"
                         ELSE "ValueError"

\* Two files whose sizes add up to exactly max_total_bytes were accepted.
C18_Witness ==
    /\ verdict.done
    /\ Len(attachments) = 2
    /\ Len(attachments) <= policy.max_attachments
    /\ SizeSum(attachments, 2) = policy.max_total_bytes
    /\ verdict.outcome = "ok"

\* ------------------------------------------------------- worker delegation
\* call_worker requests of one run, and workers running at once (the
\* outermost included).
MaxDelegations == 3
MaxNest == 3

\* The worker definitions of the registry, and the names asked for.
Registry == {"w1", "w2"}
WorkerInputs == Registry \cup {"ghost"}

\* The final outputs a worker may produce.
OutputInputs == {"o1", "o2"}

\* The attachment policy of the delegated workers.
DelegPolicy ==
    [max_attachments |-> 2, max_total_bytes |-> 3,
     allowed_suffixes |-> {}, denied_suffixes |-> {".md"}]

\* The attachment lists a delegation is made with: none, one that passes, one
\* too long, one with a denied suffix and one that names a missing file.
DelegAttachments ==
    LET ok == [name |-> "a.txt", size |-> 1, there |-> TRUE]
    IN { <<>>, <<ok>>, <<ok, ok, ok>>,
         <<[name |-> "B.MD", size |-> 1, there |-> TRUE]>>,
         <<[name |-> "a.txt", size |-> 0, there |-> FALSE]>> }

\* Faulty variant of the reply: a failure is handed on as an empty output.
reply_swallowing(failed, value) == [kind |-> "output", value |-> value]

\* What a call_worker hands its caller: the worker's final output, or the
\* failure raised in it.
reply_of(failed, value) ==
    IF failed
    THEN [kind |-> "failure", value |-> "none"]
    ELSE [kind |-> "output", value |-> value]

\* Faulty variant of the lookup: a name without a definition is taken for one.
registry_has_any(name) == TRUE

\* The registry lookup: a definition stored under exactly this name.
registry_has(name) == name \in Registry

\* call_worker up to the dispatch: the definition is looked up by name, the
\* attachments are validated, and only then is the worker run.
call_worker(name, atts) ==
    IF ~registry_has(name) THEN "NotFound"
    ELSE LET v == validate_paths(policy, atts)
         IN IF v.outcome # "ok" THEN v.outcome ELSE "dispatch"

InitDelegate ==
    /\ FsAtRest
    /\ ResolverIdle
    /\ GateIdle
    /\ RestIdle
    /\ policy = DelegPolicy
    /\ attachments = <<>>
    /\ verdict = NoVerdict
    /\ dstack = <<"main">>
    /\ dret = NoReply
    /\ dfault = 0
    /\ dlast = NoRequest
    /\ dlog = <<>>
    /\ dcount = 0

delegframe == <<fsvars, resolvervars, gatevars, attachvars, restvars>>

\* The worker on top calls call_worker: a failed lookup or validation is
\* raised in the caller, otherwise the delegated worker starts.
CallWorker ==
    /\ dret.kind = "none"
    /\ dcount < MaxDelegations
    /\ Len(dstack) < MaxNest
    /\ \E name \in WorkerInputs, atts \in DelegAttachments :
          LET out == call_worker(name, atts)
          IN /\ dlast' = [worker |-> name, attachments |-> atts,
                          outcome |-> out, started |-> (out = "dispatch")]
             /\ IF out = "dispatch"
                THEN /\ dstack' = Append(dstack, name)
                     /\ UNCHANGED <<dret, dfault>>
                ELSE /\ dret' = reply_of(TRUE, "none")
                     /\ dfault' = Len(dstack)
                     /\ UNCHANGED dstack
    /\ dcount' = dcount + 1
    /\ UNCHANGED <<dlog, delegframe>>

\* A delegated worker finishes with its final output.
WorkerReturns ==
    /\ Len(dstack) >= 2
    /\ dret.kind = "none"
    /\ \E value \in OutputInputs : dret' = reply_of(FALSE, value)
    /\ dstack' = SubSeq(dstack, 1, Len(dstack) - 1)
    /\ UNCHANGED <<dfault, dlast, dlog, dcount, delegframe>>

\* A delegated worker fails.
WorkerRaises ==
    /\ Len(dstack) >= 2
    /\ dret.kind = "none"
    /\ dret' = reply_of(TRUE, "none")
    /\ dfault' = Len(dstack)
    /\ dstack' = SubSeq(dstack, 1, Len(dstack) - 1)
    /\ UNCHANGED <<dlast, dlog, dcount, delegframe>>

\* A delegated worker gets the output of the worker it called and goes on.
ReceiveOutput ==
    /\ Len(dstack) >= 2
    /\ dret.kind = "output"
    /\ dret' = NoReply
    /\ UNCHANGED <<dstack, dfault, dlast, dlog, dcount, delegframe>>

\* A delegated worker gets a failure from its call: the failure ends it too
\* and goes on to its own caller.
PropagateFailure ==
    /\ Len(dstack) >= 2
    /\ dret.kind = "failure"
    /\ dret' = reply_of(TRUE, "none")
    /\ dstack' = SubSeq(dstack, 1, Len(dstack) - 1)
    /\ UNCHANGED <<dfault, dlast, dlog, dcount, delegframe>>

\* The outermost worker gets what its call_worker came to.
MainReceives ==
    /\ Len(dstack) = 1
    /\ dret.kind # "none"
    /\ dlog' = Append(dlog, [kind |-> dret.kind, value |-> dret.value,
                             fault |-> dfault])
    /\ dret' = NoReply
    /\ dfault' = 0
    /\ UNCHANGED <<dstack, dlast, dcount, delegframe>>

NextDelegate ==
    \/ CallWorker
    \/ WorkerReturns
    \/ WorkerRaises
    \/ ReceiveOutput
    \/ PropagateFailure
    \/ MainReceives

SpecDelegate == InitDelegate /\ [][NextDelegate]_vars

\* Every file of the list is there and the list passes the count, suffix and
\* size limits of the policy.
Acceptable(pol, atts) ==
    /\ Len(atts) <= pol.max_attachments
    /\ \A i \in 1..Len(atts) : atts[i].there /\ ~Trips(pol, atts, i)

\* C19: a call_worker whose attachments the policy does not accept starts no
\* worker: the request fails in the caller, and every worker that starts was
\* asked for with attachments the policy accepts.
C19_ValidatedBeforeDispatch ==
    [][ /\ ( /\ dcount' = dcount + 1
             /\ ~Acceptable(policy, dlast'.attachments) )
           => ( /\ dstack' = dstack
                /\ ~dlast'.started
                /\ dret'.kind = "failure" )
        /\ Len(dstack') > Len(dstack)
           => ( /\ dlast'.started
                /\ Acceptable(policy, dlast'.attachments) ) ]_vars

\* A registered worker was asked for with a list of files that would each
\* pass but are too many, and was not started.
C19_Witness ==
    /\ dlast.worker \in Registry
    /\ Len(dlast.attachments) > policy.max_attachments
    /\ \A i \in 1..Len(dlast.attachments) : dlast.attachments[i].there
    /\ ~dlast.started
    /\ dret.kind = "failure"

\* C21: a call_worker that names a worker with no definition of exactly that
\* name in the registry fails with NotFound in the caller, whatever its
\* attachments are, and starts no worker.
C21_UnknownWorkerNotFound ==
    [][ ( /\ dcount' = dcount + 1
          /\ dlast'.worker \notin Registry )
        => ( /\ dlast'.outcome = "NotFound"
             /\ ~dlast'.started
             /\ dstack' = dstack
             /\ dret'.kind = "failure" ) ]_vars

\* A worker that has no definition was asked for from inside a delegated
\* worker, with attachments that would pass, and the request failed.
C21_Witness ==
    /\ dlast.worker \notin Registry
    /\ Acceptable(policy, dlast.attachments)
    /\ dlast.outcome = "NotFound"
    /\ Len(dstack) >= 2
    /\ dret.kind = "failure"

\* C20: what the outermost caller is handed for a delegation is the final
\* output of the worker it called when nothing failed, and a failure when
\* something failed in that worker or in any worker below it: a failure on
\* its way up is never turned into an output.
C20_FailureReachesCaller ==
    [][ /\ (dfault' # 0 /\ dret'.kind # "none") => dret'.kind = "failure"
        /\ (Len(dstack') < Len(dstack) /\ dfault' = 0)
              => (dret'.kind = "output" /\ dret'.value \in OutputInputs)
        /\ Len(dlog') > Len(dlog)
              => LET e == dlog'[Len(dlog')]
                 IN /\ Len(dstack) = 1
                    /\ e.kind = dret.kind
                    /\ e.value = dret.value
                    /\ (e.fault # 0) <=> (e.kind = "failure") ]_vars

\* A failure raised two delegations down was handed to the outermost caller
\* as a failure.
C20_Witness ==
    \E i \in 1..Len(dlog) : dlog[i].fault >= 3 /\ dlog[i].kind = "failure"

\* ----------------------------------------- nested delegation and the event loop
\* The steps of work a worker run may have before it ends (a nested call is
\* one of them).
MaxWork == 3

\* A run of a worker on the event loop. mode: how it was entered; st: ready
\* to run, running on the loop's thread, suspended in an await, blocking the
\* thread in a synchronous wait, or done; got: what its last nested call
\* handed back.
RunOf(mode, st, work) == [mode |-> mode, st |-> st, work |-> work, got |-> "none"]

\* Faulty variant of the hand-over: the awaiting caller keeps the loop.
owner_after_call_held(mode, caller) == caller

\* Who occupies the loop's thread once a run has made a nested call: the
\* suspension-aware entry awaits and frees the loop, the blocking entry waits
\* on the thread.
owner_after_call(mode, caller) == IF mode = "async" THEN 0 ELSE caller

\* The outermost run has been started on the loop by the command line.
InitLoop ==
    /\ FsAtRest
    /\ ResolverIdle
    /\ GateIdle
    /\ AttachIdle
    /\ DelegIdle
    /\ CliIdle
    /\ PreIdle
    /\ BoxIdle
    /\ \E w \in 0..MaxWork : lstack = <<RunOf("root", "running", w)>>
    /\ lowner = 1
    /\ lsync = FALSE

loopframe == <<fsvars, resolvervars, gatevars, attachvars, delegvars, clivars,
               prevars, boxvars>>

Top == Len(lstack)

\* The running worker does a step of its own.
LoopStep ==
    /\ lowner = Top
    /\ lstack[Top].st = "running"
    /\ lstack[Top].work > 0
    /\ lstack' = [lstack EXCEPT ![Top].work = @ - 1]
    /\ UNCHANGED <<lowner, lsync, loopframe>>

\* The running worker's tool call delegates through one of the two entry
\* points; the nested run is handed to the same event loop.
LoopCall(mode) ==
    /\ lowner = Top
    /\ lstack[Top].st = "running"
    /\ lstack[Top].work > 0
    /\ Top < MaxNest
    /\ \E w \in 0..MaxWork :
          lstack' = Append(
              [lstack EXCEPT ![Top].work = @ - 1, ![Top].got = "none",
                  ![Top].st = IF mode = "async" THEN "suspended" ELSE "blocking"],
              RunOf(mode, "ready", w))
    /\ lowner' = owner_after_call(mode, Top)
    /\ lsync' = (lsync \/ mode = "sync")
    /\ UNCHANGED loopframe

LoopCallAsync == LoopCall("async")
LoopCallSync == LoopCall("sync")

\* The free loop picks a run that is ready.
LoopSchedule ==
    /\ lowner = 0
    /\ \E j \in 1..Top :
          /\ lstack[j].st = "ready"
          /\ lstack' = [lstack EXCEPT ![j].st = "running"]
          /\ lowner' = j
    /\ UNCHANGED <<lsync, loopframe>>

\* A nested run ends: its output goes to its caller, which can go on.
LoopFinish ==
    /\ Top >= 2
    /\ lowner = Top
    /\ lstack[Top].st = "running"
    /\ lstack[Top].work = 0
    /\ \E value \in OutputInputs :
          lstack' = [SubSeq(lstack, 1, Top - 1) EXCEPT
                        ![Top - 1].got = value, ![Top - 1].st = "ready"]
    /\ lowner' = 0
    /\ UNCHANGED <<lsync, loopframe>>

\* The outermost run ends.
LoopRootDone ==
    /\ Top = 1
    /\ lowner = 1
    /\ lstack[1].st = "running"
    /\ lstack[1].work = 0
    /\ lstack' = [lstack EXCEPT ![1].st = "done"]
    /\ lowner' = 0
    /\ UNCHANGED <<lsync, loopframe>>

NextLoop ==
    \/ LoopStep
    \/ LoopCallAsync
    \/ LoopCallSync
    \/ LoopSchedule
    \/ LoopFinish
    \/ LoopRootDone

\* The event loop keeps running whatever is ready.
SpecLoop == InitLoop /\ [][NextLoop]_vars /\ WF_vars(NextLoop)

RootDone == Top = 1 /\ lstack[1].st = "done"

\* C22: a nested run entered through the suspension-aware entry point ends
\* and hands its output to the run that called it, and the outermost run
\* ends, in every run of the loop in which the blocking entry point is not
\* re-entered; once the blocking entry point is re-entered from a run on the
\* loop, the caller holds the loop's thread, the nested run never starts and
\* the outermost run never ends.
C22_AsyncNestedCompletes ==
    /\ <>(lsync \/ RootDone)
    /\ \A d \in 2..MaxNest :
          (Top = d /\ lstack[d].mode = "async")
             ~> (lsync \/ (Top = d - 1 /\ lstack[d - 1].got \in OutputInputs))
    /\ [](lsync => ( /\ ~RootDone
                     /\ lowner # 0
                     /\ lstack[lowner].st = "blocking" ))

\* The outermost run got the output of a nested run it had awaited, and the
\* blocking entry point was never used.
C22_Witness ==
    /\ ~lsync
    /\ Top = 1
    /\ lstack[1].got \in OutputInputs
    /\ lstack[1].st = "running"

\* ------------------------------------------------------- pydanticai/cli.py main
\* The worker argument and what the file system holds under that path.
WorkerArgs ==
    { [text |-> "dir/w.yaml", exists |-> TRUE, suffix |-> ".yaml",
       stem |-> "w", parent |-> "dir"],
      [text |-> "w.yml", exists |-> TRUE, suffix |-> ".yml",
       stem |-> "w", parent |-> "."],
      [text |-> "w.YAML", exists |-> TRUE, suffix |-> ".YAML",
       stem |-> "w", parent |-> "."],
      [text |-> "gone.yaml", exists |-> FALSE, suffix |-> ".yaml",
       stem |-> "gone", parent |-> "."],
      [text |-> "greeter", exists |-> FALSE, suffix |-> "",
       stem |-> "greeter", parent |-> "."] }

\* The --input values: absent, inline JSON, the path of a JSON file, text
\* that is no JSON, and text that is JSON and also names a file. own: what
\* json.loads makes of the value; file: what it makes of the file's content.
NoInput == [text |-> "none", exists |-> FALSE, own |-> "none", file |-> "none"]
JsonInputs ==
    { NoInput,
      [text |-> "{\"a\": 1}", exists |-> FALSE, own |-> "obj_a", file |-> "none"],
      [text |-> "in.json", exists |-> TRUE, own |-> "JSONDecodeError", file |-> "obj_b"],
      [text |-> "{bad", exists |-> FALSE, own |-> "JSONDecodeError", file |-> "none"],
      [text |-> "1", exists |-> TRUE, own |-> "num_1", file |-> "obj_b"] }

MessageInputs == {"none", "hello"}
RegistryInputs == {"none", "reg"}

\* What run_worker does when it is called: it returns a result or raises.
RunOutcomes ==
    {"ok", "FileNotFoundError", "PermissionError", "ValueError", "KeyError",
     "ModelHTTPError", "UnexpectedModelBehavior", "KeyboardInterrupt"}

\* The classes an exception is an instance of.
Bases(e) ==
    CASE e \in {"FileNotFoundError", "PermissionError"} -> {e, "OSError", "Exception"}
      [] e = "ValueError" -> {e, "Exception"}
      [] e = "JSONDecodeError" -> {e, "ValueError", "Exception"}
      [] e = "KeyError" -> {e, "LookupError", "Exception"}
      [] e \in {"ModelHTTPError", "UnexpectedModelBehavior"} -> {e, "Exception"}
      [] e = "KeyboardInterrupt" -> {e, "BaseException"}
      [] OTHER -> {}

\* The except clauses of main in the order they are written, and what each
\* prints to standard error.
Clauses ==
    << [catches |-> {"FileNotFoundError"}, prints |-> "Error"],
       [catches |-> {"PermissionError"}, prints |-> "Permission denied"],
       [catches |-> {"ValueError"}, prints |-> "Invalid input"],
       [catches |-> {"JSONDecodeError"}, prints |-> "Invalid JSON"],
       [catches |-> {"ModelHTTPError"}, prints |-> "Model API error"],
       [catches |-> {"UnexpectedModelBehavior", "UserError"}, prints |-> "Error"],
       [catches |-> {"Exception"}, prints |-> "Unexpected error"] >>

\* The first clause that catches e, 0 if none does.
ClauseFor(e) ==
    IF \E i \in 1..Len(Clauses) : Clauses[i].catches \cap Bases(e) # {}
    THEN CHOOSE i \in 1..Len(Clauses) :
            /\ Clauses[i].catches \cap Bases(e) # {}
            /\ \A j \in 1..(i - 1) : Clauses[j].catches \cap Bases(e) = {}
    ELSE 0

\* _load_jsonish: the JSON of the file the value names if there is one,
\* else the JSON of the value; "JSONDecodeError" when the text is no JSON.
load_jsonish(value) == IF value.exists THEN value.file ELSE value.own

\* Faulty variant of the input selection: the message comes first.
select_input_message_first(input_json, message) ==
    IF message # "none" THEN message
    ELSE IF input_json # NoInput THEN load_jsonish(input_json)
    ELSE "{}"

\* main's input selection: --input, else the message, else the empty object.
select_input(input_json, message) ==
    IF input_json # NoInput THEN load_jsonish(input_json)
    ELSE IF message # "none" THEN message
    ELSE "{}"

\* Faulty variant of the resolution: the directory of the worker file is
\* the registry whatever --registry says.
resolve_worker_inferred(worker, registry) ==
    IF worker.exists /\ worker.suffix \in {".yaml", ".yml"}
    THEN [name |-> worker.stem, root |-> worker.parent]
    ELSE [name |-> worker.text, root |-> IF registry = "none" THEN "." ELSE registry]

\* main's worker resolution: the name and the registry root.
resolve_worker(worker, registry) ==
    IF worker.exists /\ worker.suffix \in {".yaml", ".yml"}
    THEN [name |-> worker.stem,
          root |-> IF registry = "none" THEN worker.parent ELSE registry]
    ELSE [name |-> worker.text, root |-> IF registry = "none" THEN "." ELSE registry]

\* Faulty variant of the handlers' return value.
handled_code_zero(clause) == 0

\* "return 1" of every except clause.
handled_code(clause) == 1

\* main, from the parsed arguments and what run_worker will do. returned
\* tells whether main returned a value, code is that value (-1 stands for
\* none), escaped is the exception that left main.
main(args) ==
    LET w == resolve_worker(args.worker, args.registry)
        input == select_input(args.input_json, args.message)
        error == IF input = "JSONDecodeError" THEN input
                 ELSE IF args.run # "ok" THEN args.run
                 ELSE "none"
        base == [done |-> TRUE, worker |-> w.name, registry |-> w.root,
                 called |-> (input # "JSONDecodeError"),
                 input_data |-> IF input = "JSONDecodeError" THEN "none" ELSE input,
                 error |-> error, returned |-> FALSE, code |-> -1, stdout |-> "none",
                 stderr |-> "none", escaped |-> "none"]
    IN IF error = "none"
       THEN [base EXCEPT !.returned = TRUE, !.code = 0, !.stdout = "result"]
       ELSE IF ClauseFor(error) = 0
       THEN [base EXCEPT !.escaped = error]
       ELSE IF args.debug
       THEN [base EXCEPT !.stderr = Clauses[ClauseFor(error)].prints,
                         !.escaped = error]
       ELSE [base EXCEPT !.stderr = Clauses[ClauseFor(error)].prints,
                         !.returned = TRUE,
                         !.code = handled_code(ClauseFor(error))]

InitCli ==
    /\ FsAtRest
    /\ ResolverIdle
    /\ GateIdle
    /\ AttachIdle
    /\ DelegIdle
    /\ LoopIdle
    /\ PreIdle
    /\ BoxIdle
    /\ cargs \in [worker : WorkerArgs, registry : RegistryInputs,
                  input_json : JsonInputs, message : MessageInputs,
                  debug : BOOLEAN, run : RunOutcomes]
    /\ cres = NotDone

Main ==
    /\ ~cres.done
    /\ cres' = main(cargs)
    /\ UNCHANGED <<cargs, fsvars, resolvervars, gatevars, attachvars, delegvars,
                   loopvars, prevars, boxvars>>

NextCli == Main

SpecCli == InitCli /\ [][NextCli]_vars

\* The errors of the taxonomy as they reach main: NotFound, PermissionDenied,
\* SizeExceeded and InvalidInput, ModelFailure, and Cancelled by an interrupt.
TaxonomyErrors ==
    {"FileNotFoundError", "KeyError", "PermissionError", "ValueError",
     "JSONDecodeError", "ModelHTTPError", "UnexpectedModelBehavior",
     "KeyboardInterrupt"}

\* The error categories main has a handler for.
HandledErrors == TaxonomyErrors \ {"KeyboardInterrupt"}

\* C23: with the debug flag off, no error of the taxonomy escapes main: a
\* diagnostic is printed to standard error and main returns a non-zero code.
C23_NoErrorEscapesMain ==
    (cres.done /\ ~cargs.debug /\ cres.error \in TaxonomyErrors)
        => /\ cres.escaped = "none"
           /\ cres.stderr # "none"
           /\ cres.returned
           /\ cres.code # 0

C25_InputSelection ==
    (cres.done /\ cres.called) =>
        cres.input_data =
            IF cargs.input_json # NoInput THEN cargs.input_json.own
            ELSE IF cargs.message # "none" THEN cargs.message
            ELSE "{}"

\* C25: when --input is given the worker's input is the JSON parsed from the
\* file the value names if that file exists, and from the value itself
\* otherwise, whatever the message is; without --input the message is passed
\* unchanged; with neither the input is the empty object.
C25_InputSelectionFileFirst ==
    (cres.done /\ cres.called) =>
        cres.input_data =
            IF cargs.input_json # NoInput
            THEN (IF cargs.input_json.exists THEN cargs.input_json.file
                  ELSE cargs.input_json.own)
            ELSE IF cargs.message # "none" THEN cargs.message
            ELSE "{}"

\* Both --input (inline JSON) and a message were given and run_worker got
\* the JSON.
C25_Witness ==
    /\ cres.done
    /\ cres.called
    /\ cargs.message # "none"
    /\ cargs.input_json # NoInput
    /\ ~cargs.input_json.exists
    /\ cres.input_data = cargs.input_json.own

\* C26: when the worker argument is an existing .yaml or .yml file the worker
\* name is the file's stem and the registry root is the file's directory
\* unless --registry is given; when it is a plain name the name is used as
\* it is and the registry root is --registry, or "." without it.
C26_WorkerResolution ==
    cres.done =>
        LET w == cargs.worker
            given == cargs.registry # "none"
        IN /\ (w.exists /\ w.suffix \in {".yaml", ".yml"})
                => /\ cres.worker = w.stem
                   /\ cres.registry = IF given THEN cargs.registry ELSE w.parent
           /\ (~w.exists /\ w.suffix = "")
                => /\ cres.worker = w.text
                   /\ cres.registry = IF given THEN cargs.registry ELSE "."

\* A worker file in a directory was named together with --registry: the
\* name is the stem and the registry is the one given.
C26_Witness ==
    /\ cres.done
    /\ cargs.worker.exists
    /\ cargs.worker.parent # "."
    /\ cargs.registry # "none"
    /\ cres.worker = cargs.worker.stem
    /\ cres.registry = cargs.registry

\* The outcomes of a write_text call that was refused: unknown sandbox
\* (KeyError), read-only sandbox, escaping path or disallowed suffix
\* (PermissionError), content over the byte ceiling (ValueError).
WriteRefused == {"KeyError", "PermissionError", "ValueError"}

\* C27: a write_text call that fails because the sandbox is unknown or
\* read-only, the path escapes the root, the suffix is not allowed or the
\* content is over the byte ceiling leaves the file system as it was: no
\* file is created or changed and no directory is made.
C27_FailedWriteChangesNothing ==
    [][ (ops' = ops + 1 /\ last'.op = "write" /\ last'.outcome \in WriteRefused)
           => (files' = files /\ dirs' = dirs /\ links' = links) ]_vars

\* A write was refused for its size although its target lay in a directory
\* that does not exist, and that directory still does not exist.
C27_Witness ==
    /\ last.op = "write"
    /\ last.outcome = "ValueError"
    /\ \E d \in ParentsOf(last.target) : d \notin dirs

\* ------------------------------------------------ execute_spec's pre-flight
\* The name the run resolves its model to (model_name or llm's default).
ResolvedName == "m"

\* The models llm.get_model may return: their model_id, their model_name
\* ("none" if they have none) and the attachment types they support.
ModelInputs ==
    { [model_id |-> "m", model_name |-> "none", attachment_types |-> {}],
      [model_id |-> "m-id", model_name |-> "m-name", attachment_types |-> {"image"}] }

\* config.model.allowed_models and config.requires_attachment_types.
AllowedInputs == {{}, {"m"}, {"m-name"}, {"other"}}
RequiredInputs == {{}, {"image"}, {"pdf"}}

\* config.prompt.template: none, one that cannot be loaded, one that lacks
\* variables.
TemplateInputs == {"none", "unloadable", "missing_variables"}

PreInputs ==
    [spec_exists : BOOLEAN, template : TemplateInputs, model_loads : BOOLEAN,
     model : ModelInputs, allowed : AllowedInputs, required : RequiredInputs]

\* _enforce_model_constraints' candidate names.
candidate_names(model) ==
    {ResolvedName, model.model_id}
        \cup (IF model.model_name # "none" THEN {model.model_name} ELSE {})

\* Faulty variant of the constraint check: it lets every model pass.
enforce_model_constraints_lenient(p) == "none"

\* _enforce_model_constraints: the exception it raises, "none" if it returns.
enforce_model_constraints(p) ==
    IF p.allowed # {} /\ candidate_names(p.model) \cap p.allowed = {}
    THEN "Exception: not permitted"
    ELSE IF p.required \ p.model.attachment_types # {}
    THEN "Exception: missing attachment support"
    ELSE "none"

\* execute_spec up to the call of model.chain: the exception raised on the
\* way, "none" if the chain is reached.
preflight(p) ==
    IF ~p.spec_exists THEN "FileNotFoundError"
    ELSE IF p.template = "unloadable" THEN "Exception: unable to load template"
    ELSE IF p.template = "missing_variables" THEN "Exception: missing variables"
    ELSE IF ~p.model_loads THEN "Exception: error loading model"
    ELSE enforce_model_constraints(p)

InitExec ==
    /\ FsAtRest
    /\ ResolverIdle
    /\ AttachIdle
    /\ DelegIdle
    /\ LoopIdle
    /\ CliIdle
    /\ BoxIdle
    /\ tools_approve \in BOOLEAN
    /\ approve_all = FALSE
    /\ pc = "start"
    /\ pending = "none"
    /\ asked = 0
    /\ log = <<>>
    /\ pre \in PreInputs
    /\ raised = "none"

\* execute_spec runs its checks: it raises, or it starts the chain.
Preflight ==
    /\ pc = "start"
    /\ raised' = preflight(pre)
    /\ pc' = IF preflight(pre) = "none" THEN "chain" ELSE "raised"
    /\ UNCHANGED <<pre, tools_approve, approve_all, pending, asked, log>>
    /\ UNCHANGED <<fsvars, resolvervars, attachvars, delegvars, loopvars, clivars, boxvars>>

NextExec == Preflight \/ ChainToolCall \/ Respond \/ ChainFinish

SpecExec == InitExec /\ [][NextExec]_vars

\* The run has got as far as the chain: the prompt has been sent, a tool
\* call made or an approval prompt shown.
ChainStarted ==
    \/ pc \in {"chain", "prompt", "done"}
    \/ log # <<>>
    \/ asked > 0
    \/ pending # "none"

\* C29: execute_spec starts the chain only after its checks: a missing
\* specification file raises FileNotFoundError, a model outside a non-empty
\* allow-list raises, a model lacking a required attachment type raises, and
\* in each case nothing of the chain has happened: no prompt sent, no tool
\* call, no approval prompt.
C29_ChecksBeforeChain ==
    /\ raised # "none" => (pc = "raised" /\ ~ChainStarted)
    /\ pc # "start" =>
          /\ ~pre.spec_exists => raised = "FileNotFoundError"
          /\ (pre.allowed # {} /\ candidate_names(pre.model) \cap pre.allowed = {})
                => raised # "none"
          /\ pre.required \ pre.model.attachment_types # {} => raised # "none"
    /\ ChainStarted =>
          /\ pre.spec_exists
          /\ pre.allowed = {} \/ candidate_names(pre.model) \cap pre.allowed # {}
          /\ pre.required \subseteq pre.model.attachment_types

\* The specification file exists and the model loads, but the model is not
\* on the allow-list: execute_spec has raised with the gate armed and no
\* call made.
C29_Witness ==
    /\ pc = "raised"
    /\ tools_approve
    /\ pre.spec_exists
    /\ pre.model_loads
    /\ pre.allowed = {"other"}
    /\ raised = "Exception: not permitted"
    /\ log = <<>>

\* ------------------------------------------------------------- BaseToolbox
\* What a run_bash command does: the status it exits with (negative when a
\* signal ended it) and what it wrote; BYTES stands for output that is not
\* text in the locale's encoding.
ReturnCodes == {0, 1, 2, 127, -9}
StdoutInputs == {"", "hi", "BYTES"}
StderrInputs == {"", "boom", "BYTES"}

\* What read_file and write_file find at working_dir / path.
ReadEntries == {"text file", "missing", "directory", "binary file", "unreadable file"}
WriteEntries == {"missing", "text file", "directory", "below a file", "read-only directory"}
WriteContents == {"", "new"}

\* The subclasses of Exception the file operations raise.
ExceptionClasses ==
    {"FileNotFoundError", "IsADirectoryError", "NotADirectoryError",
     "PermissionError", "UnicodeDecodeError"}

\* The value a tool call returned (kind "none": it returned nothing).
NoValue == [kind |-> "none", exit |-> 0, text |-> ""]

\* The outcome of a tool call: a returned value or a raised exception.
Returned(kind, exit, text) ==
    [done |-> TRUE, raised |-> "none",
     returned |-> [kind |-> kind, exit |-> exit, text |-> text]]
Raised(e) == [done |-> TRUE, raised |-> e, returned |-> NoValue]

\* subprocess.run(command, shell=True, capture_output=True, text=True,
\* cwd=working_dir): it raises when the working directory is not there and
\* when the captured output cannot be decoded; otherwise it hands back the
\* exit status and the output whatever the status is.
subprocess_run(c) ==
    IF ~c.cwd_exists THEN "FileNotFoundError"
    ELSE IF c.stdout = "BYTES" \/ c.stderr = "BYTES" THEN "UnicodeDecodeError"
    ELSE "none"

\* BaseToolbox.run_bash
run_bash(c) ==
    IF subprocess_run(c) # "none" THEN Raised(subprocess_run(c))
    ELSE IF c.returncode # 0 THEN Returned("Error (exit N)", c.returncode, c.stderr)
    ELSE IF c.stdout # "" THEN Returned("output", 0, c.stdout)
    ELSE Returned("(command succeeded, no output)", 0, "")

\* Path.read_text on what is at the path: the exception it raises.
read_text_raises(entry) ==
    CASE entry = "missing" -> "FileNotFoundError"
      [] entry = "directory" -> "IsADirectoryError"
      [] entry = "binary file" -> "UnicodeDecodeError"
      [] entry = "unreadable file" -> "PermissionError"
      [] OTHER -> "none"

\* BaseToolbox.read_file: "except Exception" turns the failure into a string.
read_file(c) ==
    LET e == read_text_raises(c.entry)
    IN IF e = "none" THEN Returned("content", 0, "text")
       ELSE IF e \in ExceptionClasses THEN Returned("Error reading", 0, e)
       ELSE Raised(e)

\* parent.mkdir(parents=True, exist_ok=True) and write_text on what is at
\* the path: the exception raised.
write_text_raises(entry) ==
    CASE entry = "directory" -> "IsADirectoryError"
      [] entry = "below a file" -> "NotADirectoryError"
      [] entry = "read-only directory" -> "PermissionError"
      [] OTHER -> "none"

\* BaseToolbox.write_file
write_file(c) ==
    LET e == write_text_raises(c.entry)
    IN IF e = "none" THEN Returned("Written", 0, c.content)
       ELSE IF e \in ExceptionClasses THEN Returned("Error writing", 0, e)
       ELSE Raised(e)

InitBox ==
    /\ FsAtRest
    /\ ResolverIdle
    /\ GateIdle
    /\ AttachIdle
    /\ DelegIdle
    /\ LoopIdle
    /\ CliIdle
    /\ PreIdle
    /\ BoxIdle

boxframe ==
    <<fsvars, resolvervars, gatevars, attachvars, delegvars, loopvars, clivars, prevars>>

RunBash ==
    /\ \E cwd_exists \in BOOLEAN, rc \in ReturnCodes,
          out \in StdoutInputs, err \in StderrInputs :
          LET c == [tool |-> "run_bash", cwd_exists |-> cwd_exists,
                    returncode |-> rc, stdout |-> out, stderr |-> err]
          IN tcall' = c /\ tres' = run_bash(c)
    /\ UNCHANGED boxframe

ReadFile ==
    /\ \E entry \in ReadEntries :
          LET c == [tool |-> "read_file", entry |-> entry]
          IN tcall' = c /\ tres' = read_file(c)
    /\ UNCHANGED boxframe

WriteFile ==
    /\ \E entry \in WriteEntries, content \in WriteContents :
          LET c == [tool |-> "write_file", entry |-> entry, content |-> content]
          IN tcall' = c /\ tres' = write_file(c)
    /\ UNCHANGED boxframe

NextBox == RunBash \/ ReadFile \/ WriteFile

SpecBox == InitBox /\ [][NextBox]_vars

\* C30: read_file and write_file never raise, and return an "Error reading"
\* or "Error writing" string for every failure; run_bash never raises for a
\* command that exited with a non-zero status, and returns an
\* "Error (exit N)" string with that status.
C30_FailuresAreReturned ==
    /\ tcall.tool = "read_file"
          => /\ tres.raised = "none"
             /\ read_text_raises(tcall.entry) # "none"
                   => tres.returned.kind = "Error reading"
    /\ tcall.tool = "write_file"
          => /\ tres.raised = "none"
             /\ write_text_raises(tcall.entry) # "none"
                   => tres.returned.kind = "Error writing"
    /\ (tcall.tool = "run_bash" /\ tcall.cwd_exists /\ tcall.returncode # 0)
          => /\ tres.raised = "none"
             /\ tres.returned.kind = "Error (exit N)"
             /\ tres.returned.exit = tcall.returncode

\* C2: for every relative path with a ".." component whose canonical form is
\* outside the sandbox root, resolve fails with PermissionError and returns no
\* path.
C2_DotDotEscapeRefused ==
    (rres.done /\ HasDotDot(rcall.path) /\ Escapes(rcall.root, rcall.path))
        => (~rres.ok /\ rres.path = <<>>)

\* resolve was applied to a path with ".." that leaves the root and refused it.
C2_Witness ==
    /\ rres.done
    /\ HasDotDot(rcall.path)
    /\ Escapes(rcall.root, rcall.path)
    /\ ~rres.ok

\* The relative path names a place below the root with plain names and no
\* symbolic link on the way.
PlainBelow(root, rel) ==
    /\ rel # <<>>
    /\ \A i \in 1..Len(rel) : rel[i] \in Names
    /\ \A i \in 1..Len(rel) : (root \o SubSeq(rel, 1, i)) \notin DOMAIN links

\* C14: resolve("/" + p) gives what resolve(p) gives, a path or a refusal,
\* for every relative path p; an absolute-looking path of plain names is
\* taken relative to the root, so "/sub/a.txt" resolves to root/sub/a.txt.
C14_LeadingSlashIgnored ==
    rres.done =>
        /\ rres.slashed = [ok |-> rres.ok, path |-> rres.path]
        /\ PlainBelow(rcall.root, rcall.path)
             => rres.slashed = [ok |-> TRUE, path |-> rcall.root \o rcall.path]

\* resolve was applied to "/sub/a.txt"-like input of two plain names and
\* returned the path below the root.
C14_Witness ==
    /\ rres.done
    /\ Len(rcall.path) = 2
    /\ PlainBelow(rcall.root, rcall.path)
    /\ rres.slashed.ok
    /\ rres.slashed.path = rcall.root \o rcall.path

====
